---- MODULE Spec2Model ----
(***************************************************************************)
(* Model of the retrieval engine of rag_chatbot_pg                         *)
(* (src/utils/pgvector_db.py): the chat_history table with its bounded     *)
(* per-user history, and the pdf_embeddings table with its visibility      *)
(* filter; and of the accounts (src/utils/postgres_db.py): the users       *)
(* table.                                                                  *)
(*                                                                         *)
(* The specifications share the variables:                                 *)
(*   Spec       calls of the chat-history functions that do not overlap,   *)
(*              with at most one fragment ingested                         *)
(*   SpecConc   save_user_message calls running in concurrent sessions     *)
(*   SpecTies   the same, the first two calls of the run overlapping       *)
(*   SpecDocs   ingestion and the two similarity queries                   *)
(*   SpecAdmin  ingestion, listing and the deletions                       *)
(*   SpecIngest insert_new_chunks in steps, with concurrent readers        *)
(*   SpecUsers  calls of the account functions in concurrent sessions      *)
(*                                                                         *)
(* What the model takes from the libraries the module calls:               *)
(*   - the embedding service is a fixed function from text to a vector     *)
(*     (Embed), or it raises;                                              *)
(*   - a session is one PostgreSQL transaction in READ COMMITTED: every    *)
(*     query reads the rows committed at that moment, session.delete and   *)
(*     session.add stay pending until commit, and commit applies them in   *)
(*     one step; a DELETE that finds its row already gone deletes nothing; *)
(*   - ORDER BY leaves the order of rows with equal keys to the database:  *)
(*     every order that respects the key is a possible result;             *)
(*   - a call that commits takes time: time.time() read by a later call    *)
(*     that does not overlap it is strictly greater;                       *)
(*   - the users table has the unique index the User model declares on     *)
(*     userid, and its id column draws from a sequence that a refused      *)
(*     INSERT has consumed a value of; strings compare equal when they     *)
(*     are the same string.                                                *)
(***************************************************************************)
EXTENDS Integers, Sequences, FiniteSets, TLC

VARIABLES
    chat,      \* table chat_history: set of rows [id, user_id, message, timestamp]
    pdf,       \* table pdf_embeddings: rows in creation order
    clock,     \* what time.time() returns now
    nextId,    \* number of chat rows ever committed, plus one (stands for uuid4)
    calls,     \* save_user_message calls started (concurrent) or committed
               \* (sequential), plus the fragments inserted
    sess,      \* the open sessions of SpecConc
    ret,       \* what the last completed call returned or raised
    recorded,  \* per user: the messages recorded since that user's history was last cleared
    warm,      \* number of opening calls
    users,     \* table users: set of rows [id, userid, password]
    users_id_seq   \* the next value of the sequence behind users.id

vars == <<chat, pdf, clock, nextId, calls, sess, ret, recorded, warm, users,
          users_id_seq>>

----------------------------------------------------------------------------
(* Program constants and the bounds of the model *)

CHAT_HISTORY_LIMIT == 10

Users == {"u1", "u2"}

\* Calls after the opening ones, in Spec.
MaxCalls == 6

\* The opening run of Spec: before anything else happens, either u1 records
\* Warm messages, or u1 and u2 record Warm messages each, taking turns.
Warm == CHAT_HISTORY_LIMIT - 2

\* The i-th message recorded.
Msg(i) == "msg" \o ToString(i)

Min(a, b) == IF a <= b THEN a ELSE b

Range(s) == {s[i] : i \in 1..Len(s)}

----------------------------------------------------------------------------
(* The store's primitives *)

\* A filter that lets every row through.
FilterAnyUser(rows, u) == rows

\* .filter_by(user_id=user_id)
FilterByUser(rows, u) == {r \in rows : r.user_id = u}

\* .count()
Count(rows) == Cardinality(rows)

\* ORDER BY: every sequence listing the rows of S once, keys never decreasing.
\* Rows of equal key come in any order.
RECURSIVE OrderBy(_, _)
OrderBy(S, key) ==
    IF S = {} THEN {<<>>}
    ELSE LET least == {r \in S : \A x \in S : key[r] <= key[x]}
         IN  UNION {{<<r>> \o t : t \in OrderBy(S \ {r}, key)} : r \in least}

\* .limit(n)
Limit(s, n) == SubSeq(s, 1, Min(n, Len(s)))

\* Newest first instead of oldest first.
ByTimestampDesc(S) == [r \in S |-> 0 - r.timestamp]

\* .order_by(ChatHistory.timestamp)
ByTimestamp(S) == [r \in S |-> r.timestamp]

----------------------------------------------------------------------------
(* The embedding service and the distance of pgvector *)

\* embedding.embed_query(text), when it answers: a fixed vector per text, here
\* of dimension 2. "c" embeds to a multiple of the vector of "a": different
\* texts at the same cosine distance from any query; "b" is orthogonal to
\* "a": farther from the query "a" than "a" and "c". What the service does
\* with the empty text is not known: it raises (the embedding fault of the
\* calls) or it answers, and the vector taken here for its answer is one
\* choice among the vectors it could return.
Embed(t) ==
    CASE t = "a" -> <<1, 0>>
      [] t = "b" -> <<0, 1>>
      [] t = "c" -> <<2, 0>>
      [] OTHER   -> <<1, 1>>

Dot(x, y) == x[1] * y[1] + x[2] * y[2]

\* cosine_distance(x, q) < cosine_distance(y, q), that is
\* Dot(x,q)/|x| > Dot(y,q)/|y|, decided on the squares.
CosineNearer(x, y, q) ==
    LET dx == Dot(x, q)
        dy == Dot(y, q)
        nx == Dot(x, x)
        ny == Dot(y, y)
    IN  CASE dx >= 0 /\ dy < 0  -> TRUE
          [] dx < 0  /\ dy >= 0 -> FALSE
          [] dx >= 0 /\ dy >= 0 -> dx * dx * ny > dy * dy * nx
          [] OTHER              -> dx * dx * ny < dy * dy * nx

\* Farthest first instead of nearest first.
ByCosineDistanceDesc(S, vec, q) ==
    [r \in S |-> Cardinality({x \in S : CosineNearer(vec[r], vec[x], q)})]

\* .order_by(<column>.cosine_distance(query_emb)) over the rows S whose stored
\* embeddings are vec: the sort key of a row is the number of rows of S
\* strictly nearer to the query, which orders the rows as their distances do.
ByCosineDistance(S, vec, q) ==
    [r \in S |-> Cardinality({x \in S : CosineNearer(vec[x], vec[r], q)})]

----------------------------------------------------------------------------
(* chat_history *)

\* What a call leaves in ret: the call and its arguments, what the environment
\* did to it (fault: "none", or the step that raised inside it), how it ended
\* for the caller (outcome: "ok" with a value, or "raised") and the value.
Ret(op, u, q, k, fault, outcome, v) ==
    [op |-> op, user |-> u, query |-> q, k |-> k, fault |-> fault,
     outcome |-> outcome, value |-> v]

Returned(op, u, v) == Ret(op, u, "", 0, "none", "ok", v)

\* The steps of save_user_message that can raise: the embedding call (line 90)
\* and the commit (line 100).
SaveFaults == {"embedding", "commit"}

\* save_user_message, lines 77-87: given the count read at line 77, the sets of
\* rows the query of lines 81-85 can return, as sets of ids marked for deletion.
OldestMarkedOffByOne(rows, u, count) ==
    IF count >= CHAT_HISTORY_LIMIT
    THEN {{r.id : r \in Range(Limit(s, count - CHAT_HISTORY_LIMIT))} :
            s \in OrderBy(FilterByUser(rows, u), ByTimestamp(FilterByUser(rows, u)))}
    ELSE {{}}

OldestMarked(rows, u, count) ==
    IF count >= CHAT_HISTORY_LIMIT
    THEN {{r.id : r \in Range(Limit(s, count - CHAT_HISTORY_LIMIT + 1))} :
            s \in OrderBy(FilterByUser(rows, u), ByTimestamp(FilterByUser(rows, u)))}
    ELSE {{}}

\* save_user_message, lines 93-98: the row built for the new message.
NewChat(id, u, m, ts) == [id |-> id, user_id |-> u, message |-> m, timestamp |-> ts]

\* save_user_message, lines 99-100: the commit inserts the new row and deletes
\* the marked ones that are still there.
CommitSave(rows, marked, new) == {r \in rows : r.id \notin marked} \cup {new}

\* A rollback that lets the pending deletes through.
RollbackSaveApplied(rows, marked) == {r \in rows : r.id \notin marked}

\* save_user_message, lines 101-104: session.rollback() drops what the session
\* had pending, and the error is raised to the caller.
RollbackSave(rows, marked) == rows

\* save_user_message(user_id, message) as one step: no other call overlaps it.
SaveUserMessage(u, m) ==
    /\ \E marked \in OldestMarked(chat, u, Count(FilterByUser(chat, u))) :
        \/ /\ chat' = CommitSave(chat, marked, NewChat(nextId, u, m, clock))
           /\ nextId' = nextId + 1
           /\ clock' = clock + 1
           /\ calls' = calls + 1
           /\ recorded' = [recorded EXCEPT ![u] = Append(@, m)]
           /\ ret' = Returned("save_user_message", u, <<>>)
        \/ \E fault \in SaveFaults :
           /\ chat' = RollbackSave(chat, marked)
           /\ ret' = Ret("save_user_message", u, "", 0, fault, "raised", <<>>)
           /\ UNCHANGED <<nextId, clock, calls, recorded>>
    /\ UNCHANGED <<pdf, sess, warm, users, users_id_seq>>

\* get_all_history without its filter_by.
HistoryResultsOfAll(rows, u) ==
    {[i \in 1..Len(s) |-> s[i].message] : s \in OrderBy(rows, ByTimestamp(rows))}

\* get_all_history(user_id): the messages of the user's rows by timestamp.
HistoryResults(rows, u) ==
    {[i \in 1..Len(s) |-> s[i].message] :
        s \in OrderBy(FilterByUser(rows, u), ByTimestamp(FilterByUser(rows, u)))}

GetAllHistory(u) ==
    /\ \E h \in HistoryResults(chat, u) : ret' = Returned("get_all_history", u, h)
    /\ UNCHANGED <<chat, pdf, clock, nextId, calls, sess, recorded, warm, users, users_id_seq>>

\* clear_history_by_user(user_id)
ClearHistoryByUser(u) ==
    /\ chat' = chat \ FilterByUser(chat, u)
    /\ recorded' = [recorded EXCEPT ![u] = <<>>]
    /\ ret' = Returned("clear_history_by_user", u, <<>>)
    /\ UNCHANGED <<pdf, clock, nextId, calls, sess, warm, users, users_id_seq>>

\* clear_history_all()
ClearHistoryAll ==
    /\ chat' = {}
    /\ recorded' = [u \in Users |-> <<>>]
    /\ ret' = Returned("clear_history_all", "", <<>>)
    /\ UNCHANGED <<pdf, clock, nextId, calls, sess, warm, users, users_id_seq>>

----------------------------------------------------------------------------
(* Spec: calls that do not overlap *)

NoSession == [pc |-> "idle", user |-> "", message |-> "", count |-> 0,
              marked |-> {}, ts |-> 0]

Sessions == {"s1", "s2"}

InitStore ==
    /\ chat = {}
    /\ pdf = <<>>
    /\ clock = 1
    /\ nextId = 1
    /\ calls = 0
    /\ sess = [s \in Sessions |-> NoSession]
    /\ ret = Returned("init", "", <<>>)
    /\ recorded = [u \in Users |-> <<>>]
    /\ users = {}
    /\ users_id_seq = 1

Init ==
    /\ InitStore
    /\ warm \in {0, Warm, 2 * Warm}

\* Who makes the i-th opening call.
OpeningUser(i) == IF warm > Warm /\ i % 2 = 0 THEN "u2" ELSE "u1"

\* The opening calls record msg1, msg2, ... and nothing else happens.
Opening ==
    /\ calls < warm
    /\ SaveUserMessage(OpeningUser(calls + 1), Msg(calls + 1))

SeqSave ==
    /\ warm <= calls
    /\ calls < warm + MaxCalls
    /\ \E u \in Users : SaveUserMessage(u, Msg(calls + 1))

SeqHistory ==
    /\ warm <= calls
    /\ \E u \in Users : GetAllHistory(u)

SeqClear ==
    /\ warm <= calls
    /\ \E u \in Users : ClearHistoryByUser(u)

SeqClearAll ==
    /\ warm <= calls
    /\ ClearHistoryAll

\* Next and Spec follow the pdf_embeddings functions, below.

----------------------------------------------------------------------------
(* SpecConc: save_user_message calls in concurrent sessions *)

\* Calls started after the opening ones, in SpecConc.
MaxConcCalls == 3

\* The opening run of SpecConc: u1 records up to one below the limit.
ConcWarm == CHAT_HISTORY_LIMIT - 1

ConcOpening ==
    /\ calls < warm
    /\ SaveUserMessage("u1", Msg(calls + 1))

\* Line 74 and line 77: the session opens and counts the user's committed rows.
ConcCount(s) ==
    /\ warm <= calls
    /\ calls < warm + MaxConcCalls
    /\ sess[s].pc = "idle"
    /\ \E u \in Users :
         LET count == Count(FilterByUser(chat, u))
         IN  sess' = [sess EXCEPT ![s] =
                 [pc |-> IF count >= CHAT_HISTORY_LIMIT THEN "select" ELSE "embed",
                  user |-> u, message |-> Msg(calls + 1), count |-> count,
                  marked |-> {}, ts |-> 0]]
    /\ calls' = calls + 1
    /\ UNCHANGED <<chat, pdf, clock, nextId, ret, recorded, warm, users, users_id_seq>>

\* Lines 81-87: the oldest rows committed now are marked for deletion; how
\* many is decided by the count read before.
ConcSelect(s) ==
    /\ sess[s].pc = "select"
    /\ \E marked \in OldestMarked(chat, sess[s].user, sess[s].count) :
         sess' = [sess EXCEPT ![s].marked = marked, ![s].pc = "embed"]
    /\ UNCHANGED <<chat, pdf, clock, nextId, calls, ret, recorded, warm, users, users_id_seq>>

\* Lines 90-99: the embedding call, then the new row with time.time(); or the
\* embedding call raises (lines 101-104).
ConcEmbed(s) ==
    /\ sess[s].pc = "embed"
    /\ \/ /\ sess' = [sess EXCEPT ![s].ts = clock, ![s].pc = "commit"]
          /\ UNCHANGED <<chat, ret>>
       \/ /\ chat' = RollbackSave(chat, sess[s].marked)
          /\ sess' = [sess EXCEPT ![s] = NoSession]
          /\ ret' = Ret("save_user_message", sess[s].user, "", 0, "embedding",
                        "raised", <<>>)
    /\ UNCHANGED <<pdf, clock, nextId, calls, recorded, warm, users, users_id_seq>>

\* Line 100: the commit; or it raises (lines 101-104).
ConcCommit(s) ==
    /\ sess[s].pc = "commit"
    /\ sess' = [sess EXCEPT ![s] = NoSession]
    /\ \/ /\ chat' = CommitSave(chat, sess[s].marked,
                        NewChat(nextId, sess[s].user, sess[s].message, sess[s].ts))
          /\ nextId' = nextId + 1
          /\ clock' = clock + 1
          /\ recorded' = [recorded EXCEPT ![sess[s].user] = Append(@, sess[s].message)]
          /\ ret' = Returned("save_user_message", sess[s].user, <<>>)
       \/ /\ chat' = RollbackSave(chat, sess[s].marked)
          /\ ret' = Ret("save_user_message", sess[s].user, "", 0, "commit",
                        "raised", <<>>)
          /\ UNCHANGED <<nextId, clock, recorded>>
    /\ UNCHANGED <<pdf, calls, warm, users, users_id_seq>>

\* Another request reads a history while the sessions run.
ConcHistory ==
    /\ warm <= calls
    /\ \E u \in Users : GetAllHistory(u)

NextConc ==
    \/ ConcOpening
    \/ \E s \in Sessions : ConcCount(s)
    \/ \E s \in Sessions : ConcSelect(s)
    \/ \E s \in Sessions : ConcEmbed(s)
    \/ \E s \in Sessions : ConcCommit(s)
    \/ ConcHistory

InitConc ==
    /\ InitStore
    /\ warm = ConcWarm

SpecConc == InitConc /\ [][NextConc]_vars

----------------------------------------------------------------------------
(* SpecTies: save_user_message calls in concurrent sessions as in SpecConc,
   in another order: the first calls of the run, one per session, may
   overlap and read the same time.time(); then u1 records Warm messages in
   calls that do not overlap; then calls in concurrent sessions again, which
   find the turns of the first calls as the oldest. *)

\* Calls started after the opening ones, in SpecTies.
MaxTieCalls == 2

\* Line 74 and line 77, as ConcCount, at the two ends of the run.
TieCount(s) ==
    /\ \/ calls < Cardinality(Sessions)
       \/ /\ calls >= Cardinality(Sessions) + warm
          /\ calls < Cardinality(Sessions) + warm + MaxTieCalls
    /\ sess[s].pc = "idle"
    /\ \E u \in Users :
         LET count == Count(FilterByUser(chat, u))
         IN  sess' = [sess EXCEPT ![s] =
                 [pc |-> IF count >= CHAT_HISTORY_LIMIT THEN "select" ELSE "embed",
                  user |-> u, message |-> Msg(calls + 1), count |-> count,
                  marked |-> {}, ts |-> 0]]
    /\ calls' = calls + 1
    /\ UNCHANGED <<chat, pdf, clock, nextId, ret, recorded, warm, users, users_id_seq>>

\* The opening calls, once the first calls have ended.
TieOpening ==
    /\ calls >= Cardinality(Sessions)
    /\ calls < Cardinality(Sessions) + warm
    /\ \A s \in Sessions : sess[s].pc = "idle"
    /\ SaveUserMessage("u1", Msg(calls + 1))

NextTies ==
    \/ \E s \in Sessions : TieCount(s)
    \/ TieOpening
    \/ \E s \in Sessions : ConcSelect(s)
    \/ \E s \in Sessions : ConcEmbed(s)
    \/ \E s \in Sessions : ConcCommit(s)
    \/ ConcHistory

InitTies ==
    /\ InitStore
    /\ warm = Warm

SpecTies == InitTies /\ [][NextTies]_vars

----------------------------------------------------------------------------
(* retrieve_user_memory *)

\* The texts of the turns recorded in SpecDocs: two texts at the same distance
\* from the query, one farther, and the empty text, which save_user_message
\* does not refuse (it stores it when the embedding call answers).
ChatTexts == {"", "a", "b", "c"}

Queries == {"a"}

\* The steps of retrieve_user_memory and retrieve_pdf_for_user that can raise:
\* the embedding call (lines 112, 205) and the query (lines 115-119, 208-215).
QueryFaults == {"embedding", "query"}

\* Lines 128-130 and 229-231: the except branch prints the error and returns [].
QueryFailed(op, u, q, k, fault) == Ret(op, u, q, k, fault, "ok", <<>>)

\* Lines 121-127: one Document per selected row with a non-empty message, in
\* the order of the rows. row is the id of the row the Document was made from.
MemoryDocuments(s) ==
    LET kept == SelectSeq(s, LAMBDA r : r.message # "")
    IN  [i \in 1..Len(kept) |->
            [row |-> kept[i].id, page_content |-> kept[i].message,
             user_id |-> kept[i].user_id, timestamp |-> kept[i].timestamp]]

\* The query of lines 115-119 without its limit(k).
MemoryRowsUnlimited(rows, u, q, k) ==
    LET S == FilterByUser(rows, u)
    IN  OrderBy(S, ByCosineDistance(S, [r \in S |-> Embed(r.message)], Embed(q)))

\* Lines 115-119: the user's rows by cosine distance to the query, the first k.
MemoryRows(rows, u, q, k) ==
    LET S == FilterByUser(rows, u)
    IN  {Limit(s, k) :
            s \in OrderBy(S, ByCosineDistance(S, [r \in S |-> Embed(r.message)], Embed(q)))}

\* retrieve_user_memory(user_id, query, k)
RetrieveUserMemory(u, q, k) ==
    /\ \/ \E s \in MemoryRows(chat, u, q, k) :
            ret' = Ret("retrieve_user_memory", u, q, k, "none", "ok", MemoryDocuments(s))
       \/ \E fault \in QueryFaults :
            ret' = QueryFailed("retrieve_user_memory", u, q, k, fault)
    /\ UNCHANGED <<chat, pdf, clock, nextId, calls, sess, recorded, warm, users, users_id_seq>>

----------------------------------------------------------------------------
(* pdf_embeddings *)

\* A row of pdf_embeddings is [user_id, source, is_public, chunk_text]; its
\* embedding is Embed(chunk_text). The filename and metadata_json columns are
\* read by no query of the module and are left out. The place of a row in pdf
\* is its creation order; it stands for the row's id.

Sources == {"doc.pdf", "other.pdf"}

PdfTexts == {"a", "b"}

\* The Documents handed to insert_new_chunks: page_content with the metadata
\* keys user_id, source and is_public.
Chunks(texts, sources) ==
    [page_content : texts, user_id : Users, source : sources, is_public : {0, 1}]

\* Rows inserted into the two tables in one behaviour of SpecDocs or SpecAdmin.
\* A call inserts at most that many fragments, and k is at most that: a larger
\* k selects what k = MaxRows selects.
MaxRows == 2

Batches(chunks, most) == UNION {[1..n -> chunks] : n \in 0..most}

\* embedding.embed_documents(texts), when it answers: one vector per text.
EmbedDocuments(texts) == [i \in 1..Len(texts) |-> Embed(texts[i])]

\* Line 176: what insert_new_chunks can receive from embed_documents when it
\* does not raise. The length of the list is not checked: the list is taken
\* as it comes, with one vector per text or with fewer.
EmbedDocumentsAnswers(texts) ==
    {SubSeq(EmbedDocuments(texts), 1, m) : m \in 0..Len(texts)}

\* Rows that all take the owner, source and visibility of the first chunk.
NewPdfRowsOfFirst(chunks, embs) ==
    [i \in 1..Min(Len(chunks), Len(embs)) |->
        [user_id |-> chunks[1].user_id, source |-> chunks[1].source,
         is_public |-> chunks[1].is_public, chunk_text |-> chunks[i].page_content]]

\* Lines 179-189: zip(chunks, embeddings_list) makes one row per pair, with
\* the user_id, source and is_public of the metadata of its chunk.
NewPdfRows(chunks, embs) ==
    [i \in 1..Min(Len(chunks), Len(embs)) |->
        [user_id |-> chunks[i].user_id, source |-> chunks[i].source,
         is_public |-> chunks[i].is_public, chunk_text |-> chunks[i].page_content]]

\* A rollback that keeps the rows inserted before the failure.
RollbackIngestPartial(rows, pending) == rows \o pending

\* Lines 194-197: session.rollback() drops the rows the session had inserted.
RollbackIngest(rows, pending) == rows

\* A commit that overwrites the visibility of the stored rows of the same
\* source and owner as a new row with the visibility of that new row.
CommitIngestUpsert(rows, new) ==
    [i \in 1..Len(rows) |->
        IF \E j \in 1..Len(new) :
              new[j].source = rows[i].source /\ new[j].user_id = rows[i].user_id
        THEN [rows[i] EXCEPT !.is_public =
                 new[CHOOSE j \in 1..Len(new) :
                        new[j].source = rows[i].source
                        /\ new[j].user_id = rows[i].user_id].is_public]
        ELSE rows[i]] \o new

\* Line 191: the commit adds the rows of the session to the table. No
\* statement of the module updates a row of pdf_embeddings.
CommitIngest(rows, new) == rows \o new

\* insert_new_chunks(chunks). The embedding call (line 176) may raise, or
\* answer with fewer vectors than texts (fault "short"), or the INSERT of the
\* i-th row may fail when the commit (line 191) flushes the rows, or the
\* COMMIT that follows the INSERTs may fail (fault "commit").
\* In ret, k is the number of chunks; of a call that returned True, query
\* keeps the chunks that rows were made from, to compare with the rows stored.
InsertNewChunks(chunks) ==
    LET texts == [i \in 1..Len(chunks) |-> chunks[i].page_content]
        new   == NewPdfRows(chunks, EmbedDocuments(texts))
    IN  /\ \/ \E embs \in EmbedDocumentsAnswers(texts) :
              LET made == NewPdfRows(chunks, embs)
              IN  /\ pdf' = CommitIngest(pdf, made)
                  /\ calls' = calls + Len(made)
                  /\ ret' = Ret("insert_new_chunks", "", SubSeq(chunks, 1, Len(made)),
                                Len(chunks),
                                IF Len(embs) = Len(chunks) THEN "none" ELSE "short",
                                "ok", TRUE)
           \/ /\ pdf' = RollbackIngest(pdf, <<>>)
              /\ ret' = Ret("insert_new_chunks", "", "", Len(chunks), "embedding", "ok", FALSE)
              /\ UNCHANGED calls
           \/ \E i \in 1..Len(new) :
              /\ pdf' = RollbackIngest(pdf, SubSeq(new, 1, i - 1))
              /\ ret' = Ret("insert_new_chunks", "", "", Len(chunks), "insert", "ok", FALSE)
              /\ UNCHANGED calls
           \/ /\ pdf' = RollbackIngest(pdf, new)
              /\ ret' = Ret("insert_new_chunks", "", "", Len(chunks), "commit", "ok", FALSE)
              /\ UNCHANGED calls
        /\ UNCHANGED <<chat, clock, nextId, sess, recorded, warm, users, users_id_seq>>

\* The filter of lines 209-212 without its ownership clause.
VisibleToAll(rows, u) == 1..Len(rows)

\* The filter of lines 209-212 without its is_public clause.
VisibleOwnOnly(rows, u) == {i \in 1..Len(rows) : rows[i].user_id = u}

\* Lines 209-212: (PDFEmbedding.user_id == user_id) | (PDFEmbedding.is_public == 1)
Visible(rows, u) ==
    {i \in 1..Len(rows) : rows[i].user_id = u \/ rows[i].is_public = 1}

\* Two ranked lists, the user's own rows and then the shared rows of others,
\* put end to end and cut at k.
PdfRowsOwnFirst(rows, u, q, k) ==
    LET own    == {i \in 1..Len(rows) : rows[i].user_id = u}
        shared == {i \in 1..Len(rows) : rows[i].user_id # u /\ rows[i].is_public = 1}
    IN  {Limit(s \o t, k) :
            s \in OrderBy(own, ByCosineDistance(own, [i \in own |-> Embed(rows[i].chunk_text)], Embed(q))),
            t \in OrderBy(shared, ByCosineDistance(shared, [i \in shared |-> Embed(rows[i].chunk_text)], Embed(q)))}

\* Lines 208-215: the visible rows by cosine distance to the query, the first k.
PdfRows(rows, u, q, k) ==
    LET S == Visible(rows, u)
    IN  {Limit(s, k) :
            s \in OrderBy(S, ByCosineDistance(S, [i \in S |-> Embed(rows[i].chunk_text)], Embed(q)))}

\* Lines 217-228: one Document per selected row. row is the place of the row
\* in pdf.
PdfDocuments(rows, s) ==
    [i \in 1..Len(s) |->
        [row |-> s[i], page_content |-> rows[s[i]].chunk_text,
         user_id |-> rows[s[i]].user_id, source |-> rows[s[i]].source,
         is_public |-> rows[s[i]].is_public]]

\* retrieve_pdf_for_user(user_id, query, k)
RetrievePdfForUser(u, q, k) ==
    /\ \/ \E s \in PdfRows(pdf, u, q, k) :
            ret' = Ret("retrieve_pdf_for_user", u, q, k, "none", "ok", PdfDocuments(pdf, s))
       \/ \E fault \in QueryFaults :
            ret' = QueryFailed("retrieve_pdf_for_user", u, q, k, fault)
    /\ UNCHANGED <<chat, pdf, clock, nextId, calls, sess, recorded, warm, users, users_id_seq>>

\* Lines 239-247: the distinct (source, user_id) pairs, in no given order.
PdfSources(rows) ==
    {[source |-> rows[i].source, ingested_by |-> rows[i].user_id] : i \in 1..Len(rows)}

\* get_pdf_sources()
GetPdfSources ==
    /\ ret' = Returned("get_pdf_sources", "", PdfSources(pdf))
    /\ UNCHANGED <<chat, pdf, clock, nextId, calls, sess, recorded, warm, users, users_id_seq>>

\* A DELETE by source that spares the shared rows.
DeleteBySourcePrivateOnly(rows, src) ==
    SelectSeq(rows, LAMBDA r : ~(r.source = src /\ r.is_public = 0))

\* Lines 255-257: .filter(PDFEmbedding.source == source_name).delete()
DeleteBySource(rows, src) == SelectSeq(rows, LAMBDA r : r.source # src)

\* A DELETE by source and user that forgets the user.
DeleteBySourceAnyUser(rows, src, u) == SelectSeq(rows, LAMBDA r : r.source # src)

\* Lines 266-268: .filter_by(source=source_name, user_id=user_id).delete()
DeleteBySourceUserid(rows, src, u) ==
    SelectSeq(rows, LAMBDA r : ~(r.source = src /\ r.user_id = u))

\* A DELETE by user that removes one row only, the first that matches.
DeleteFirstOfUser(rows, u) ==
    IF \E i \in 1..Len(rows) : rows[i].user_id = u
    THEN LET first == CHOOSE i \in 1..Len(rows) :
                         /\ rows[i].user_id = u
                         /\ \A j \in 1..(i - 1) : rows[j].user_id # u
         IN  SubSeq(rows, 1, first - 1) \o SubSeq(rows, first + 1, Len(rows))
    ELSE rows

\* Line 277: .filter_by(user_id=user_id).delete()
DeleteByUser(rows, u) == SelectSeq(rows, LAMBDA r : r.user_id # u)

\* What a deletion call leaves in ret. None of the four functions returns a
\* value; value is the number of rows the DELETE removed, which Query.delete()
\* returns and the function drops.
Deleted(op, u, src, rows, kept) ==
    Ret(op, u, src, 0, "none", "ok", Len(rows) - Len(kept))

\* clear_pdf_by_source(source_name)
ClearPdfBySource(src) ==
    /\ pdf' = DeleteBySource(pdf, src)
    /\ ret' = Deleted("clear_pdf_by_source", "", src, pdf, pdf')
    /\ UNCHANGED <<chat, clock, nextId, calls, sess, recorded, warm, users, users_id_seq>>

\* clear_pdf_by_source_userid(source_name, user_id)
ClearPdfBySourceUserid(src, u) ==
    /\ pdf' = DeleteBySourceUserid(pdf, src, u)
    /\ ret' = Deleted("clear_pdf_by_source_userid", u, src, pdf, pdf')
    /\ UNCHANGED <<chat, clock, nextId, calls, sess, recorded, warm, users, users_id_seq>>

\* clear_pdf_by_user(user_id)
ClearPdfByUser(u) ==
    /\ pdf' = DeleteByUser(pdf, u)
    /\ ret' = Deleted("clear_pdf_by_user", u, "", pdf, pdf')
    /\ UNCHANGED <<chat, clock, nextId, calls, sess, recorded, warm, users, users_id_seq>>

\* clear_all_pdf()
ClearAllPdf ==
    /\ pdf' = <<>>
    /\ ret' = Deleted("clear_all_pdf", "", "", pdf, pdf')
    /\ UNCHANGED <<chat, clock, nextId, calls, sess, recorded, warm, users, users_id_seq>>

----------------------------------------------------------------------------
(* Spec, continued: one private fragment may be ingested while the histories
   are written, for the chat-history functions to leave alone. *)

SeqIngest ==
    /\ warm <= calls
    /\ calls < warm + MaxCalls
    /\ pdf = <<>>
    /\ \E c \in {d \in Chunks({"a"}, {"doc.pdf"}) : d.is_public = 0} :
         InsertNewChunks(<<c>>)

Next == Opening \/ SeqSave \/ SeqHistory \/ SeqClear \/ SeqClearAll \/ SeqIngest

Spec == Init /\ [][Next]_vars

----------------------------------------------------------------------------
(* SpecDocs: ingestion and the two similarity queries, calls that do not
   overlap. The fragments come from one source and differ in text, owner and
   visibility. Each query reads one table: a behaviour fills either
   chat_history or pdf_embeddings. *)

DocSave ==
    /\ pdf = <<>>
    /\ calls < MaxRows
    /\ \E u \in Users, m \in ChatTexts : SaveUserMessage(u, m)

DocRecall ==
    \E u \in Users, q \in Queries, k \in 1..MaxRows : RetrieveUserMemory(u, q, k)

DocIngest ==
    /\ chat = {}
    /\ \E chunks \in Batches(Chunks(PdfTexts, {"doc.pdf"}), MaxRows - calls) :
         InsertNewChunks(chunks)

DocRetrieve ==
    \E u \in Users, q \in Queries, k \in 1..MaxRows : RetrievePdfForUser(u, q, k)

NextDocs == DocSave \/ DocRecall \/ DocIngest \/ DocRetrieve

InitDocs ==
    /\ InitStore
    /\ warm = 0

SpecDocs == InitDocs /\ [][NextDocs]_vars

----------------------------------------------------------------------------
(* SpecAdmin: ingestion, listing and the deletions of both tables, calls that
   do not overlap. The fragments have one text and differ in source, owner
   and visibility. One turn is recorded by u1 before any fragment is stored,
   for the deletions of chat_history to find. *)

\* Fragments inserted in one behaviour of SpecAdmin.
MaxAdminRows == 3

\* Fragments inserted so far: calls counts them and the turns recorded.
PdfInserted == calls - (nextId - 1)

\* The fragments of one document: one text, source, owner and visibility.
Documents(chunks, most) == {[i \in 1..n |-> c] : c \in chunks, n \in 0..most}

AdminIngest ==
    \E chunks \in Documents(Chunks({"a"}, Sources), MaxAdminRows - PdfInserted) :
        InsertNewChunks(chunks)

AdminSources == GetPdfSources

AdminClearBySource == \E src \in Sources : ClearPdfBySource(src)

AdminClearBySourceUserid ==
    \E src \in Sources, u \in Users : ClearPdfBySourceUserid(src, u)

AdminClearByUser == \E u \in Users : ClearPdfByUser(u)

AdminClearAll == ClearAllPdf

\* The opening call.
AdminSave ==
    /\ nextId <= warm
    /\ pdf = <<>>
    /\ SaveUserMessage("u1", "a")

AdminClearHistory == \E u \in Users : ClearHistoryByUser(u)

AdminClearHistoryAll == ClearHistoryAll

NextAdmin ==
    \/ AdminIngest
    \/ AdminSources
    \/ AdminClearBySource
    \/ AdminClearBySourceUserid
    \/ AdminClearByUser
    \/ AdminClearAll
    \/ AdminSave
    \/ AdminClearHistory
    \/ AdminClearHistoryAll

InitAdmin ==
    /\ InitStore
    /\ warm = 1

SpecAdmin == InitAdmin /\ [][NextAdmin]_vars

----------------------------------------------------------------------------
(* SpecIngest: insert_new_chunks in the steps of its session, while other
   requests read pdf_embeddings. Each of the two sessions ingests once, a
   document of its own source, so that the fragments of a batch are the
   fragments of that source. *)

NoIngest == [pc |-> "idle", chunks |-> <<>>, rows |-> <<>>, flushed |-> 0, seen |-> {}]

IngestSource(s) == IF s = "s1" THEN "doc.pdf" ELSE "other.pdf"

\* The rows a session has sent to the database in its open transaction.
Uncommitted(s) ==
    IF sess[s].pc = "flush" THEN SubSeq(sess[s].rows, 1, sess[s].flushed) ELSE <<>>

\* A statement that reads what open transactions have written.
ReadUncommitted(rows, written) == rows \o written

\* Lines 17-18: the sessions are transactions of PostgreSQL at its default
\* isolation level. A statement reads the rows committed when it starts and
\* nothing that an open transaction of another session has written.
ReadCommitted(rows, written) == rows

\* What a statement of another session reads now.
Snapshot == ReadCommitted(pdf, Uncommitted("s1") \o Uncommitted("s2"))

\* The fragments of the batch of session s among rows.
OfBatch(s, rows) == {i \in 1..Len(rows) : rows[i].source = IngestSource(s)}

\* A read notes, for each ingest begun, how many fragments of its batch were
\* in the snapshot, how many the session had sent and whether it had
\* committed. seen holds the note of the last read.
Observe(snapshot) ==
    [s \in Sessions |->
        IF sess[s].pc \in {"flush", "done"}
        THEN [sess[s] EXCEPT !.seen =
                 {[flushed |-> sess[s].flushed, done |-> sess[s].pc = "done",
                   count |-> Cardinality(OfBatch(s, snapshot))]}]
        ELSE sess[s]]

\* Lines 170-189: the session opens, the embedding call answers and the rows
\* are added to the session; or the embedding call raises (lines 194-197).
IngestEmbed(s) ==
    /\ sess[s].pc = "idle"
    /\ \E chunks \in Documents(Chunks({"a"}, {IngestSource(s)}), MaxRows - calls) :
         LET texts == [i \in 1..Len(chunks) |-> chunks[i].page_content]
         IN  \/ \E embs \in EmbedDocumentsAnswers(texts) :
                /\ sess' = [sess EXCEPT ![s].pc = "flush", ![s].chunks = chunks,
                                       ![s].rows = NewPdfRows(chunks, embs)]
                /\ calls' = calls + Len(chunks)
                /\ UNCHANGED <<pdf, ret>>
             \/ /\ sess' = [sess EXCEPT ![s].pc = "failed"]
                /\ pdf' = RollbackIngest(pdf, <<>>)
                /\ ret' = Ret("insert_new_chunks", "", "", Len(chunks), "embedding",
                              "ok", FALSE)
                /\ UNCHANGED calls
    /\ UNCHANGED <<chat, clock, nextId, recorded, warm, users, users_id_seq>>

\* Line 191, first part: session.commit() sends the INSERT of the next row in
\* the transaction of the session; or the INSERT fails (lines 194-197).
IngestFlush(s) ==
    /\ sess[s].pc = "flush"
    /\ sess[s].flushed < Len(sess[s].rows)
    /\ \/ /\ sess' = [sess EXCEPT ![s].flushed = @ + 1]
          /\ UNCHANGED <<pdf, ret>>
       \/ /\ sess' = [sess EXCEPT ![s].pc = "failed"]
          /\ pdf' = RollbackIngest(pdf, Uncommitted(s))
          /\ ret' = Ret("insert_new_chunks", "", "", Len(sess[s].chunks),
                        "insert", "ok", FALSE)
    /\ UNCHANGED <<chat, clock, nextId, calls, recorded, warm, users, users_id_seq>>

\* Line 191, second part: the transaction commits. Lines 192-193: True. Or
\* the COMMIT fails after every INSERT was sent (lines 194-197): the rows are
\* dropped and the call returns False.
IngestCommit(s) ==
    /\ sess[s].pc = "flush"
    /\ sess[s].flushed = Len(sess[s].rows)
    /\ \/ /\ pdf' = CommitIngest(pdf, sess[s].rows)
          /\ sess' = [sess EXCEPT ![s].pc = "done"]
          /\ ret' = Ret("insert_new_chunks", "",
                        SubSeq(sess[s].chunks, 1, Len(sess[s].rows)),
                        Len(sess[s].chunks),
                        IF Len(sess[s].rows) = Len(sess[s].chunks) THEN "none" ELSE "short",
                        "ok", TRUE)
       \/ /\ pdf' = RollbackIngest(pdf, Uncommitted(s))
          /\ sess' = [sess EXCEPT ![s].pc = "failed"]
          /\ ret' = Ret("insert_new_chunks", "", "", Len(sess[s].chunks),
                        "commit", "ok", FALSE)
    /\ UNCHANGED <<chat, clock, nextId, calls, recorded, warm, users, users_id_seq>>

\* retrieve_pdf_for_user(user_id, query, k) in another session, with k large
\* enough for all the fragments of the run.
IngestRetrieve ==
    /\ \E u \in Users, q \in Queries, k \in {MaxRows} :
         \/ /\ \E r \in PdfRows(Snapshot, u, q, k) :
                  ret' = Ret("retrieve_pdf_for_user", u, q, k, "none", "ok",
                             PdfDocuments(Snapshot, r))
            /\ sess' = Observe(Snapshot)
         \/ /\ \E fault \in QueryFaults :
                  ret' = QueryFailed("retrieve_pdf_for_user", u, q, k, fault)
            /\ UNCHANGED sess
    /\ UNCHANGED <<chat, pdf, clock, nextId, calls, recorded, warm, users, users_id_seq>>

\* get_pdf_sources() in another session.
IngestSources ==
    /\ ret' = Returned("get_pdf_sources", "", PdfSources(Snapshot))
    /\ sess' = Observe(Snapshot)
    /\ UNCHANGED <<chat, pdf, clock, nextId, calls, recorded, warm, users, users_id_seq>>

NextIngest ==
    \/ \E s \in Sessions : IngestEmbed(s)
    \/ \E s \in Sessions : IngestFlush(s)
    \/ \E s \in Sessions : IngestCommit(s)
    \/ IngestRetrieve
    \/ IngestSources

InitIngest ==
    /\ chat = {}
    /\ pdf = <<>>
    /\ clock = 1
    /\ nextId = 1
    /\ calls = 0
    /\ sess = [s \in Sessions |-> NoIngest]
    /\ ret = Returned("init", "", <<>>)
    /\ recorded = [u \in Users |-> <<>>]
    /\ users = {}
    /\ users_id_seq = 1
    /\ warm = 0

SpecIngest == InitIngest /\ [][NextIngest]_vars

----------------------------------------------------------------------------
(* users (src/utils/postgres_db.py). authenticate_user sends one statement
   and is one step. delete_user and update_user_password read a row and
   write at their commit; add_user sends its INSERT and then its COMMIT; other
   requests run between the two. The DELETE or UPDATE and the COMMIT after
   it are one step: what they wrote shows at the COMMIT, and a COMMIT that
   fails leaves nothing of them.
   In ret, user is the userid of the call and query its password argument. *)

\* Calls started in one behaviour of SpecUsers.
MaxUserCalls == 4

Passwords == {"p1", "p2"}

\* filter_by(userid=userid), lines 76 and 98.
UsersByUserid(rows, userid) == {r \in rows : r.userid = userid}

UniqueViolationNever(rows, userid) == FALSE

\* unique=True of line 22: the INSERT of a userid that a row holds is refused.
UniqueViolation(rows, userid) == UsersByUserid(rows, userid) # {}

\* Lines 89-90: a row with this userid and this password exists.
Authenticate(rows, userid, password) ==
    \E r \in rows : r.userid = userid /\ r.password = password

\* A session between two statements of its call: the call, and the row it
\* holds (the primary key, and the password read by a SELECT). pc tells what
\* the session does next: "index" (add_user: its INSERT has drawn the id and
\* is to enter the unique index) or "commit".
NoUserCall == [pc |-> "idle", op |-> "", userid |-> "", password |-> "",
               id |-> 0, loaded |-> ""]

\* The INSERT of another session holds this userid in the unique index and
\* has not committed: an INSERT of the same userid waits for it.
IndexHeld(s, userid) ==
    \E t \in Sessions \ {s} :
        /\ sess[t].op = "add_user"
        /\ sess[t].pc = "commit"
        /\ sess[t].userid = userid

\* add_user(userid, password), lines 59-63: the commit sends the INSERT, which
\* draws the id of the row from the sequence; or the INSERT does not reach the
\* database (fault "insert") and the call ends in the handler of lines 65-68.
AddUserInsert(s, userid, password) ==
    /\ sess[s].pc = "idle"
    /\ \/ /\ sess' = [sess EXCEPT ![s] = [pc |-> "index", op |-> "add_user",
                                          userid |-> userid, password |-> password,
                                          id |-> users_id_seq, loaded |-> ""]]
          /\ users_id_seq' = users_id_seq + 1
          /\ UNCHANGED ret
       \/ /\ ret' = Ret("add_user", userid, password, 0, "insert", "ok", FALSE)
          /\ UNCHANGED <<sess, users_id_seq>>
    /\ calls' = calls + 1
    /\ UNCHANGED <<chat, pdf, clock, nextId, recorded, warm, users>>

\* add_user, line 63: the INSERT enters the unique index, once no open
\* transaction holds the userid there; or it is refused because a row holds
\* the userid, and the call ends in the handler of lines 65-68. The id that
\* was drawn is not given back.
AddUserIndex(s) ==
    /\ sess[s].pc = "index"
    /\ ~IndexHeld(s, sess[s].userid)
    /\ IF UniqueViolation(users, sess[s].userid)
       THEN /\ sess' = [sess EXCEPT ![s] = NoUserCall]
            /\ ret' = Ret("add_user", sess[s].userid, sess[s].password, 0,
                          "none", "ok", FALSE)
       ELSE /\ sess' = [sess EXCEPT ![s].pc = "commit"]
            /\ UNCHANGED ret
    /\ UNCHANGED <<chat, pdf, clock, nextId, calls, recorded, warm, users, users_id_seq>>

\* add_user, lines 63-64: the COMMIT, after which the row is there; or the
\* COMMIT fails (fault "commit"), the row is dropped and the call ends in the
\* handler of lines 65-68.
AddUserCommit(s) ==
    /\ sess[s].pc = "commit"
    /\ sess[s].op = "add_user"
    /\ \/ /\ users' = users \cup {[id |-> sess[s].id, userid |-> sess[s].userid,
                                    password |-> sess[s].password]}
          /\ ret' = Ret("add_user", sess[s].userid, sess[s].password, 0,
                        "none", "ok", TRUE)
       \/ /\ ret' = Ret("add_user", sess[s].userid, sess[s].password, 0,
                        "commit", "ok", FALSE)
          /\ UNCHANGED users
    /\ sess' = [sess EXCEPT ![s] = NoUserCall]
    /\ UNCHANGED <<chat, pdf, clock, nextId, calls, recorded, warm, users_id_seq>>

\* WHERE users.id = id, of the DELETE and the UPDATE the commit sends.
UsersById(rows, id) == {r \in rows : r.id = id}

\* delete_user(userid), lines 74-77 and 81: the SELECT. first() has no ORDER
\* BY: any matching row. Without a row the call returns False.
DeleteUserSelect(s, userid) ==
    /\ sess[s].pc = "idle"
    /\ \/ /\ UsersByUserid(users, userid) = {}
          /\ ret' = Ret("delete_user", userid, "", 0, "none", "ok", FALSE)
          /\ UNCHANGED sess
       \/ \E r \in UsersByUserid(users, userid) :
          /\ sess' = [sess EXCEPT ![s] = [pc |-> "commit", op |-> "delete_user",
                                          userid |-> userid, password |-> "",
                                          id |-> r.id, loaded |-> r.password]]
          /\ UNCHANGED ret
    /\ calls' = calls + 1
    /\ UNCHANGED <<chat, pdf, clock, nextId, recorded, warm, users, users_id_seq>>

\* delete_user, lines 78-80: the commit sends DELETE ... WHERE id = the loaded
\* id. A DELETE that finds the row gone deletes nothing and the call returns
\* True all the same. A commit that fails raises to the caller: the function
\* has no handler.
DeleteUserCommit(s) ==
    /\ sess[s].pc = "commit"
    /\ sess[s].op = "delete_user"
    /\ \/ /\ users' = users \ UsersById(users, sess[s].id)
          /\ ret' = Ret("delete_user", sess[s].userid, "", 0, "none", "ok", TRUE)
       \/ /\ ret' = Ret("delete_user", sess[s].userid, "", 0, "commit", "raised", FALSE)
          /\ UNCHANGED users
    /\ sess' = [sess EXCEPT ![s] = NoUserCall]
    /\ UNCHANGED <<chat, pdf, clock, nextId, calls, recorded, warm, users_id_seq>>

\* update_user_password(userid, new_password), lines 96-99 and 103: the SELECT.
UpdateUserPasswordSelect(s, userid, new_password) ==
    /\ sess[s].pc = "idle"
    /\ \/ /\ UsersByUserid(users, userid) = {}
          /\ ret' = Ret("update_user_password", userid, new_password, 0, "none", "ok", FALSE)
          /\ UNCHANGED sess
       \/ \E r \in UsersByUserid(users, userid) :
          /\ sess' = [sess EXCEPT ![s] = [pc |-> "commit", op |-> "update_user_password",
                                          userid |-> userid, password |-> new_password,
                                          id |-> r.id, loaded |-> r.password]]
          /\ UNCHANGED ret
    /\ calls' = calls + 1
    /\ UNCHANGED <<chat, pdf, clock, nextId, recorded, warm, users, users_id_seq>>

\* update_user_password, lines 100-102. When the new password is the one the
\* row was loaded with, the session has nothing to write and the commit sends
\* no statement. Otherwise it sends UPDATE ... SET password WHERE id = the
\* loaded id; when that finds no row the session raises (fault "stale"), and
\* so does a commit that fails: the function has no handler.
UpdateUserPasswordCommit(s) ==
    /\ sess[s].pc = "commit"
    /\ sess[s].op = "update_user_password"
    /\ LET call  == sess[s]
           found == UsersById(users, call.id)
           True  == Ret("update_user_password", call.userid, call.password, 0,
                        "none", "ok", TRUE)
           Raised(fault) == Ret("update_user_password", call.userid, call.password, 0,
                                fault, "raised", FALSE)
       IN  \/ /\ call.password = call.loaded
              /\ ret' = True
              /\ UNCHANGED users
           \/ /\ call.password # call.loaded
              /\ found # {}
              /\ users' = (users \ found)
                            \cup {[r EXCEPT !.password = call.password] : r \in found}
              /\ ret' = True
           \/ /\ call.password # call.loaded
              /\ found = {}
              /\ ret' = Raised("stale")
              /\ UNCHANGED users
           \/ /\ ret' = Raised("commit")
              /\ UNCHANGED users
    /\ sess' = [sess EXCEPT ![s] = NoUserCall]
    /\ UNCHANGED <<chat, pdf, clock, nextId, calls, recorded, warm, users_id_seq>>

\* authenticate_user(userid, password), lines 85-92.
AuthenticateUser(userid, password) ==
    /\ ret' = Ret("authenticate_user", userid, password, 0, "none", "ok",
                  Authenticate(users, userid, password))
    /\ calls' = calls + 1
    /\ UNCHANGED <<chat, pdf, clock, nextId, sess, recorded, warm, users, users_id_seq>>

UsersAdd ==
    /\ calls < MaxUserCalls
    /\ \E s \in Sessions, u \in Users, p \in Passwords : AddUserInsert(s, u, p)

UsersAddIndex == \E s \in Sessions : AddUserIndex(s)

UsersAddCommit == \E s \in Sessions : AddUserCommit(s)

UsersDelete ==
    /\ calls < MaxUserCalls
    /\ \E s \in Sessions, u \in Users : DeleteUserSelect(s, u)

UsersDeleteCommit == \E s \in Sessions : DeleteUserCommit(s)

UsersUpdate ==
    /\ calls < MaxUserCalls
    /\ \E s \in Sessions, u \in Users, p \in Passwords : UpdateUserPasswordSelect(s, u, p)

UsersUpdateCommit == \E s \in Sessions : UpdateUserPasswordCommit(s)

UsersAuthenticate ==
    /\ calls < MaxUserCalls
    /\ \E u \in Users, p \in Passwords : AuthenticateUser(u, p)

NextUsers ==
    \/ UsersAdd
    \/ UsersAddIndex
    \/ UsersAddCommit
    \/ UsersDelete
    \/ UsersDeleteCommit
    \/ UsersUpdate
    \/ UsersUpdateCommit
    \/ UsersAuthenticate

InitUsers ==
    /\ chat = {}
    /\ pdf = <<>>
    /\ clock = 1
    /\ nextId = 1
    /\ calls = 0
    /\ sess = [s \in Sessions |-> NoUserCall]
    /\ ret = Returned("init", "", <<>>)
    /\ recorded = [u \in Users |-> <<>>]
    /\ warm = 0
    /\ users = {}
    /\ users_id_seq = 1

SpecUsers == InitUsers /\ [][NextUsers]_vars

----------------------------------------------------------------------------
(* Claims on the bounded history, under Spec *)

LastN(s, n) == SubSeq(s, Len(s) - n + 1, Len(s))

\* The last min(n, H) of the n messages a user recorded since the last clear.
LastRecorded(u) == LastN(recorded[u], Min(Len(recorded[u]), CHAT_HISTORY_LIMIT))

\* C1: after any sequence of completed save_user_message, clear_history_by_user
\* and clear_history_all calls that do not overlap, no user holds more than
\* CHAT_HISTORY_LIMIT stored turns.
C1_HistoryBound ==
    \A u \in Users : Count(FilterByUser(chat, u)) <= CHAT_HISTORY_LIMIT

\* A save has just completed for a user who had recorded more than the limit
\* and holds exactly the limit.
C1_Witness ==
    /\ ret.op = "save_user_message"
    /\ ret.outcome = "ok"
    /\ Len(recorded[ret.user]) > CHAT_HISTORY_LIMIT
    /\ Count(FilterByUser(chat, ret.user)) = CHAT_HISTORY_LIMIT

\* C2: after n sequential saves of one user from an empty history, the turns
\* kept for the user are exactly the last min(n, H) recorded, and
\* get_all_history returns them oldest first.
C2_HistoryIsLastRecorded ==
    /\ \A u \in Users :
         /\ {r.message : r \in FilterByUser(chat, u)} = Range(LastRecorded(u))
         /\ Count(FilterByUser(chat, u)) = Len(LastRecorded(u))
    /\ ret.op = "get_all_history" => ret.value = LastRecorded(ret.user)

\* msg1..msg12 recorded with H = 10: the history is msg3..msg12.
C2_Witness ==
    /\ ret.op = "get_all_history"
    /\ Len(recorded[ret.user]) = CHAT_HISTORY_LIMIT + 2
    /\ ret.value = [i \in 1..CHAT_HISTORY_LIMIT |-> Msg(i + 2)]

\* C7: a save_user_message in which the embedding call or the commit raises
\* leaves the table as it was, eviction included, and raises to its caller.
C7_FailedSaveChangesNothing ==
    [][(ret'.op = "save_user_message" /\ ret'.fault # "none")
          => (chat' = chat /\ ret'.outcome = "raised")]_vars

\* The embedding call has just raised for a user at capacity.
C7_Witness ==
    /\ ret.op = "save_user_message"
    /\ ret.fault = "embedding"
    /\ ret.outcome = "raised"
    /\ Count(FilterByUser(chat, ret.user)) >= CHAT_HISTORY_LIMIT

\* C9: whatever the interleaving of the users' saves, every stored turn is
\* stored under the user who recorded it, and get_all_history(u) returns all of
\* u's stored turns and nothing else.
C9_HistoryIsolation ==
    /\ \A r \in chat : r.message \in Range(recorded[r.user_id])
    /\ ret.op = "get_all_history" =>
         /\ Range(ret.value) = {r.message : r \in FilterByUser(chat, ret.user)}
         /\ Len(ret.value) = Count(FilterByUser(chat, ret.user))
         /\ \A v \in Users \ {ret.user} :
              Range(ret.value) \cap Range(recorded[v]) = {}

\* u1 reads its history after u1 and u2 recorded in turn.
C9_Witness ==
    /\ ret.op = "get_all_history"
    /\ ret.user = "u1"
    /\ Len(ret.value) >= 2
    /\ recorded["u2"] # <<>>
    /\ \E i, j, k \in 1..nextId :
         /\ i < j /\ j < k
         /\ Msg(i) \in Range(recorded["u1"])
         /\ Msg(j) \in Range(recorded["u2"])
         /\ Msg(k) \in Range(recorded["u1"])

\* C21: a save_user_message(u, ...) or clear_history_by_user(u) step leaves
\* the turns of every other user as they were, whether or not that user is
\* at capacity, and leaves pdf_embeddings unchanged.
C21_OtherUsersUntouched ==
    [][ret'.op \in {"save_user_message", "clear_history_by_user"} =>
          /\ \A v \in Users \ {ret'.user} :
                {r \in chat' : r.user_id = v} = {r \in chat : r.user_id = v}
          /\ pdf' = pdf]_vars

\* A save has just evicted a turn of its user while the other user holds
\* CHAT_HISTORY_LIMIT turns and a fragment is stored.
C21_Witness ==
    /\ ret.op = "save_user_message"
    /\ ret.outcome = "ok"
    /\ Len(recorded[ret.user]) > CHAT_HISTORY_LIMIT
    /\ \E v \in Users \ {ret.user} :
         Cardinality({r \in chat : r.user_id = v}) = CHAT_HISTORY_LIMIT
    /\ pdf # <<>>

----------------------------------------------------------------------------
(* Claims on concurrent saves, under SpecConc *)

\* C3: when save_user_message calls of one user run concurrently, no committed
\* state of the table holds more than CHAT_HISTORY_LIMIT turns of a user.
C3_NoMoreThanLimitCommitted ==
    \A u \in Users :
        Cardinality({r \in chat : r.user_id = u}) <= CHAT_HISTORY_LIMIT

\* C15: a save_user_message call that completes for a user of whom it counted
\* n turns leaves that user with exactly CHAT_HISTORY_LIMIT turns when
\* n >= CHAT_HISTORY_LIMIT, and with n + 1 turns otherwise.
C15_ExactlyLimitAfterSave ==
    [][\A s \in Sessions :
          (/\ sess[s].pc = "commit"
           /\ sess'[s].pc = "idle"
           /\ ret'.op = "save_user_message"
           /\ ret'.outcome = "ok")
          => Count(FilterByUser(chat', sess[s].user)) =
                IF sess[s].count >= CHAT_HISTORY_LIMIT
                THEN CHAT_HISTORY_LIMIT
                ELSE sess[s].count + 1]_vars

----------------------------------------------------------------------------
(* Claims on the choice of the evicted turns, under SpecTies *)

\* Session s has just marked turns for eviction (lines 81-87).
HasSelected(s) == sess[s].pc = "select" /\ sess'[s].pc = "embed"

\* C16: every turn marked for eviction is older than every turn
\* of the user that is not marked, where of two turns with the same
\* timestamp the one inserted first is the older.
C16_EvictsOldestTiesByInsertion ==
    [][\A s \in Sessions : HasSelected(s) =>
          \A e, r \in FilterByUser(chat, sess[s].user) :
              (e.id \in sess'[s].marked /\ r.id \notin sess'[s].marked)
              => \/ e.timestamp < r.timestamp
                 \/ e.timestamp = r.timestamp /\ e.id < r.id]_vars

----------------------------------------------------------------------------
(* Claims on ingestion and the similarity queries, under SpecDocs *)

IsQuery == ret.op \in {"retrieve_user_memory", "retrieve_pdf_for_user"}

\* The rows the returned Documents were made from.
ReturnedRows == {ret.value[i].row : i \in 1..Len(ret.value)}

\* The fragments in the scope of retrieve for user u: owned by u or shared.
InScope(u) == {i \in 1..Len(pdf) : pdf[i].user_id = u \/ pdf[i].is_public = 1}

\* Document or row d is strictly nearer to the last query than e, or as near.
Nearer(d, e) ==
    CosineNearer(Embed(d.page_content), Embed(e.page_content), Embed(ret.query))

Tied(d, e) == ~Nearer(d, e) /\ ~Nearer(e, d)

\* The records in the scope of the last query that it did not return, with
\* their creation order.
LeftOut ==
    IF ret.op = "retrieve_pdf_for_user"
    THEN {[row |-> i, page_content |-> pdf[i].chunk_text] :
            i \in InScope(ret.user) \ ReturnedRows}
    ELSE {[row |-> r.id, page_content |-> r.message] :
            r \in {x \in chat : x.user_id = ret.user /\ x.id \notin ReturnedRows}}

\* The turns stored for the user of the last call.
TurnsOfUser == FilterByUser(chat, ret.user)

\* The turns of the user of the last call were recorded from non-empty text,
\* as the interface of the engine requires of its callers.
TurnsNotEmpty == \A r \in TurnsOfUser : r.message # ""

\* C4: every fragment retrieve_pdf_for_user(u, query, k) returns is a stored
\* fragment that u owns or that is shared.
C4_RetrieveOnlyOwnOrShared ==
    ret.op = "retrieve_pdf_for_user" =>
        \A i \in 1..Len(ret.value) :
            LET d == ret.value[i]
            IN  /\ d.row \in 1..Len(pdf)
                /\ pdf[d.row].user_id = d.user_id
                /\ pdf[d.row].is_public = d.is_public
                /\ d.user_id = ret.user \/ d.is_public = 1

\* u1 and u2 own private fragments only, and u1 retrieves some.
C4_Witness ==
    /\ ret.op = "retrieve_pdf_for_user"
    /\ ret.user = "u1"
    /\ ret.value # <<>>
    /\ \A i \in 1..Len(pdf) : pdf[i].is_public = 0
    /\ \E i, j \in 1..Len(pdf) : pdf[i].user_id = "u1" /\ pdf[j].user_id = "u2"

\* C5: when retrieve_pdf_for_user(B, query, k) completes without a failure,
\* it returns every shared fragment that is among the k nearest of the
\* fragments owned by B or shared, that is every shared fragment with fewer
\* than k other fragments of that scope as near to the query or nearer.
C5_SharedIsRetrieved ==
    (ret.op = "retrieve_pdf_for_user" /\ ret.fault = "none") =>
        \A i \in 1..Len(pdf) :
            (/\ pdf[i].is_public = 1
             /\ Cardinality({j \in InScope(ret.user) \ {i} :
                    ~CosineNearer(Embed(pdf[i].chunk_text), Embed(pdf[j].chunk_text),
                                  Embed(ret.query))}) < ret.k)
            => i \in ReturnedRows

\* u2 owns nothing and is returned a shared fragment of u1, while a private
\* fragment of u1 is stored as well.
C5_Witness ==
    /\ ret.op = "retrieve_pdf_for_user"
    /\ ret.user = "u2"
    /\ \A i \in 1..Len(pdf) : pdf[i].user_id = "u1"
    /\ \E i \in 1..Len(pdf) : pdf[i].is_public = 0
    /\ \E i \in 1..Len(ret.value) :
         ret.value[i].user_id = "u1" /\ ret.value[i].is_public = 1

\* C6: an insert_new_chunks in which the embedding call or the insertion of
\* any fragment fails leaves pdf_embeddings as it was and returns False.
C6_FailedIngestInsertsNothing ==
    [][(ret'.op = "insert_new_chunks" /\ ret'.fault \in {"embedding", "insert", "commit"})
          => (pdf' = pdf /\ ret'.outcome = "ok" /\ ret'.value = FALSE)]_vars

\* The insertion of a fragment of a batch of two has just failed.
C6_Witness ==
    /\ ret.op = "insert_new_chunks"
    /\ ret.fault = "insert"
    /\ ret.k = 2
    /\ ret.value = FALSE

\* C8: a failure of the embedding call or of the query ends the similarity
\* query in an error, and an empty result means that no stored record is in
\* the scope of the query.
C8_FailureIsAnError ==
    IsQuery =>
        /\ ret.fault # "none" => ret.outcome = "raised"
        /\ (ret.outcome = "ok" /\ ret.value = <<>>) =>
             IF ret.op = "retrieve_pdf_for_user"
             THEN InScope(ret.user) = {}
             ELSE FilterByUser(chat, ret.user) = {}

\* C10 as claimed: of two records at the same distance from the query the one
\* created earlier is ranked first, and is the one kept when k cuts one off.
C10_TiesByCreationOrder ==
    (IsQuery /\ ret.fault = "none") =>
        /\ \A i, j \in 1..Len(ret.value) :
             (i < j /\ Tied(ret.value[i], ret.value[j]))
                => ret.value[i].row < ret.value[j].row
        /\ \A i \in 1..Len(ret.value) : \A x \in LeftOut :
             Tied(ret.value[i], x) => ret.value[i].row < x.row

\* C10 as amended: the result is in ascending order of distance and no record
\* left out is strictly nearer than a returned one; the order of records at
\* the same distance, and which of them k cuts off, is not fixed. For
\* retrieve_user_memory this is stated of users whose turns were recorded from
\* non-empty text.
C10_RankedByDistance ==
    (IsQuery /\ ret.fault = "none"
       /\ (ret.op = "retrieve_user_memory" => TurnsNotEmpty)) =>
        /\ \A i, j \in 1..Len(ret.value) :
             i < j => ~Nearer(ret.value[j], ret.value[i])
        /\ \A i \in 1..Len(ret.value) : \A x \in LeftOut :
             ~Nearer(x, ret.value[i])

\* Two records are at the same distance, k = 1, and the one created later is
\* returned.
C10_Witness ==
    /\ IsQuery
    /\ ret.fault = "none"
    /\ (ret.op = "retrieve_user_memory" => TurnsNotEmpty)
    /\ ret.k = 1
    /\ Len(ret.value) = 1
    /\ \E x \in LeftOut : Tied(ret.value[1], x) /\ x.row < ret.value[1].row

\* C11: when retrieve_pdf_for_user(u, query, k) completes without a failure,
\* it returns min(k, m) distinct fragments of the m fragments that u owns or
\* that are shared, in ascending order of distance to the query, and no
\* fragment of that set left out is strictly nearer than a returned one,
\* whoever owns it and whatever its visibility.
C11_NearestOfUnion ==
    (ret.op = "retrieve_pdf_for_user" /\ ret.fault = "none") =>
        /\ Len(ret.value) = Min(ret.k, Cardinality(InScope(ret.user)))
        /\ Cardinality(ReturnedRows) = Len(ret.value)
        /\ ReturnedRows \subseteq InScope(ret.user)
        /\ \A i \in 1..Len(ret.value) :
             ret.value[i].page_content = pdf[ret.value[i].row].chunk_text
        /\ \A i, j \in 1..Len(ret.value) :
             i < j => ~Nearer(ret.value[j], ret.value[i])
        /\ \A i \in 1..Len(ret.value) : \A x \in LeftOut :
             ~Nearer(x, ret.value[i])

\* k = 1: a shared fragment of the other user is returned and a fragment of
\* the user's own, farther from the query, is left out.
C11_Witness ==
    /\ ret.op = "retrieve_pdf_for_user"
    /\ ret.fault = "none"
    /\ ret.k = 1
    /\ Len(ret.value) = 1
    /\ ret.value[1].user_id # ret.user
    /\ \E i \in InScope(ret.user) \ ReturnedRows :
         /\ pdf[i].user_id = ret.user
         /\ pdf[i].is_public = 0
         /\ Nearer(ret.value[1], [page_content |-> pdf[i].chunk_text])

\* The rows a successful insert_new_chunks has just inserted: the last ones,
\* as many as chunks were made into rows.
InsertedRow(i) == pdf[Len(pdf) - Len(ret.query) + i]

\* C19 as claimed: the fragments inserted by one insert_new_chunks call have
\* the same owner, the same source and the same visibility.
C19_BatchSharesAttributes ==
    (ret.op = "insert_new_chunks" /\ ret.value = TRUE) =>
        \A i, j \in 1..Len(ret.query) :
            /\ InsertedRow(i).user_id = InsertedRow(j).user_id
            /\ InsertedRow(i).source = InsertedRow(j).source
            /\ InsertedRow(i).is_public = InsertedRow(j).is_public

\* C19 as amended: each fragment inserted by an insert_new_chunks call has the
\* owner, the source and the visibility of the metadata of the chunk it was
\* made from, and the text of that chunk.
C19_RowCarriesOwnMetadata ==
    (ret.op = "insert_new_chunks" /\ ret.value = TRUE) =>
        /\ Len(pdf) >= Len(ret.query)
        /\ \A i \in 1..Len(ret.query) :
             /\ InsertedRow(i).user_id = ret.query[i].user_id
             /\ InsertedRow(i).source = ret.query[i].source
             /\ InsertedRow(i).is_public = ret.query[i].is_public
             /\ InsertedRow(i).chunk_text = ret.query[i].page_content

\* One call has just inserted a private fragment of one user and a shared
\* fragment of the other.
C19_Witness ==
    /\ ret.op = "insert_new_chunks"
    /\ ret.value = TRUE
    /\ ret.fault = "none"
    /\ ret.k = 2
    /\ InsertedRow(1).user_id # InsertedRow(2).user_id
    /\ InsertedRow(1).is_public # InsertedRow(2).is_public

\* C20: a retrieve_user_memory(u, query, k) without a failure, for a user
\* whose turns were recorded from non-empty text, returns exactly min(k, n)
\* turns of the n stored for u, each a different stored turn of u with its
\* text and timestamp, in ascending distance to the query, and the empty
\* sequence when n = 0.
C20_RecallReturnsMinKN ==
    (ret.op = "retrieve_user_memory" /\ ret.fault = "none" /\ TurnsNotEmpty) =>
        /\ Len(ret.value) = Min(ret.k, Count(TurnsOfUser))
        /\ Cardinality(ReturnedRows) = Len(ret.value)
        /\ \A i \in 1..Len(ret.value) :
             /\ ret.value[i].user_id = ret.user
             /\ \E r \in TurnsOfUser :
                  /\ r.id = ret.value[i].row
                  /\ r.message = ret.value[i].page_content
                  /\ r.timestamp = ret.value[i].timestamp
        /\ \A i, j \in 1..Len(ret.value) :
             i < j => ~Nearer(ret.value[j], ret.value[i])

\* The user holds two turns, "a" and "b"; k = 1 and the turn "a" is returned
\* for the query "a".
C20_Witness ==
    /\ ret.op = "retrieve_user_memory"
    /\ ret.fault = "none"
    /\ TurnsNotEmpty
    /\ ret.k = 1
    /\ ret.query = "a"
    /\ {r.message : r \in TurnsOfUser} = {"a", "b"}
    /\ Len(ret.value) = 1
    /\ ret.value[1].page_content = "a"

\* C22: an insert_new_chunks call that returns True for n chunks has stored
\* exactly n new fragments, also when the embedding call answered with fewer
\* vectors than texts.
C22_TrueMeansAllStored ==
    [][(ret'.op = "insert_new_chunks" /\ ret'.value = TRUE)
          => Len(pdf') = Len(pdf) + ret'.k]_vars

----------------------------------------------------------------------------
(* Claims on the deletions, under SpecAdmin *)

\* C13: after clear_pdf_by_source(s) completes no fragment with source s is
\* stored, whoever uploaded it and whatever its visibility, and the pairs
\* get_pdf_sources() lists, which are the pairs of the stored fragments,
\* include none whose source is s.
C13_PurgedSourceIsGone ==
    /\ ret.op = "clear_pdf_by_source" =>
         /\ \A i \in 1..Len(pdf) : pdf[i].source # ret.query
         /\ \A p \in PdfSources(pdf) : p.source # ret.query
    /\ ret.op = "get_pdf_sources" =>
         ret.value = {[source |-> pdf[i].source, ingested_by |-> pdf[i].user_id] :
                         i \in 1..Len(pdf)}

\* clear_pdf_by_source has just removed two fragments or more and left a
\* fragment of another source.
C13_Witness ==
    /\ ret.op = "clear_pdf_by_source"
    /\ ret.value >= 2
    /\ pdf # <<>>

DeletionOps ==
    {"clear_history_by_user", "clear_history_all", "clear_pdf_by_source",
     "clear_pdf_by_source_userid", "clear_pdf_by_user", "clear_all_pdf"}

\* Calls r and t are the same deletion with the same arguments.
SameCall(r, t) == r.op = t.op /\ r.user = t.user /\ r.query = t.query

\* No stored record matches the predicate of deletion call r.
NothingMatches(r) ==
    CASE r.op = "clear_history_by_user" -> \A x \in chat : x.user_id # r.user
      [] r.op = "clear_history_all" -> chat = {}
      [] r.op = "clear_pdf_by_source" ->
            \A i \in 1..Len(pdf) : pdf[i].source # r.query
      [] r.op = "clear_pdf_by_source_userid" ->
            \A i \in 1..Len(pdf) : ~(pdf[i].source = r.query /\ pdf[i].user_id = r.user)
      [] r.op = "clear_pdf_by_user" ->
            \A i \in 1..Len(pdf) : pdf[i].user_id # r.user
      [] r.op = "clear_all_pdf" -> pdf = <<>>
      [] OTHER -> FALSE

\* C14: each of the six deletion calls completes without an error; when it
\* repeats the call completed just before, or when no record matches its
\* predicate, it leaves both tables as they were.
C14_DeletionsIdempotent ==
    [][ret'.op \in DeletionOps =>
          /\ ret'.outcome = "ok"
          /\ (SameCall(ret, ret') \/ NothingMatches(ret'))
                => (chat' = chat /\ pdf' = pdf)]_vars

\* clear_pdf_by_user has just found nothing to remove, after fragments were
\* removed, while fragments of the other user are stored.
C14_Witness ==
    /\ ret.op = "clear_pdf_by_user"
    /\ ret.value = 0
    /\ pdf # <<>>
    /\ PdfInserted > Len(pdf)

\* C17: clear_pdf_by_source_userid(s, u) removes exactly the fragments whose
\* source is s and whose owner is u, and clear_pdf_by_user(u) exactly the
\* fragments whose owner is u; the other fragments stay as they were, in
\* their order, and chat_history is unchanged.
C17_PurgeRemovesExactlyMatching ==
    [][/\ ret'.op = "clear_pdf_by_source_userid" =>
            /\ pdf' = SelectSeq(pdf, LAMBDA r :
                          r.source # ret'.query \/ r.user_id # ret'.user)
            /\ chat' = chat
       /\ ret'.op = "clear_pdf_by_user" =>
            /\ pdf' = SelectSeq(pdf, LAMBDA r : r.user_id # ret'.user)
            /\ chat' = chat]_vars

\* clear_pdf_by_source_userid(s, u) has just removed a fragment; a fragment
\* of s owned by the other user, a fragment of u from the other source and a
\* turn are stored.
C17_Witness ==
    /\ ret.op = "clear_pdf_by_source_userid"
    /\ ret.value >= 1
    /\ \E i, j \in 1..Len(pdf) :
         /\ pdf[i].source = ret.query /\ pdf[i].user_id # ret.user
         /\ pdf[j].source # ret.query /\ pdf[j].user_id = ret.user
    /\ chat # {}

\* t lists some of the rows of s, in the order of s.
IsSubSeqOf(t, s) ==
    \E f \in [1..Len(t) -> 1..Len(s)] :
        /\ \A i, j \in 1..Len(t) : i < j => f[i] < f[j]
        /\ \A i \in 1..Len(t) : t[i] = s[f[i]]

\* C18: no step changes the visibility or the owner of a stored fragment. A
\* step that removes no fragment leaves every stored fragment with its owner
\* and its is_public, so visible to the same users; a step that removes
\* fragments leaves the others as they were.
C18_VisibilityImmutable ==
    [][\/ pdf' = pdf
       \/ IF Len(pdf') >= Len(pdf)
          THEN \A i \in 1..Len(pdf) :
                  /\ pdf'[i].is_public = pdf[i].is_public
                  /\ pdf'[i].user_id = pdf[i].user_id
                  /\ \A u \in Users : (i \in Visible(pdf', u)) <=> (i \in Visible(pdf, u))
          ELSE IsSubSeqOf(pdf', pdf)]_vars

\* One fragment has just been ingested as shared; a private fragment of the
\* same source and owner was stored before and is still private.
C18_Witness ==
    /\ ret.op = "insert_new_chunks"
    /\ ret.value = TRUE
    /\ ret.fault = "none"
    /\ ret.k = 1
    /\ Len(pdf) >= 2
    /\ pdf[Len(pdf)].is_public = 1
    /\ pdf[1].is_public = 0
    /\ pdf[1].source = pdf[Len(pdf)].source
    /\ pdf[1].user_id = pdf[Len(pdf)].user_id

----------------------------------------------------------------------------
(* Claim on ingestion with concurrent readers, under SpecIngest *)

\* C12: a retrieve_pdf_for_user or get_pdf_sources that runs while an
\* insert_new_chunks is in progress, or after it, reads either none of the
\* fragments of the batch or all of them.
C12_BatchSeenWholeOrNotAtAll ==
    \A s \in Sessions : \A o \in sess[s].seen :
        o.count = 0 \/ o.count = Len(sess[s].rows)

\* A read has run while the session had sent one of the two rows of its
\* batch and had not committed, and the read found none of them.
C12_Witness ==
    /\ ret.op \in {"retrieve_pdf_for_user", "get_pdf_sources"}
    /\ \E s \in Sessions :
         /\ Len(sess[s].rows) = 2
         /\ sess[s].seen = {[flushed |-> 1, done |-> FALSE, count |-> 0]}

----------------------------------------------------------------------------
(* Claim on the accounts, under SpecUsers *)

\* This step is the return of an add_user(userid, ...): of a session that was
\* in the call, or of a call whose INSERT did not reach the database.
AddUserReturns(userid) ==
    \/ \E s \in Sessions :
          /\ sess[s].op = "add_user"
          /\ sess[s].userid = userid
          /\ sess'[s].pc = "idle"
    \/ /\ ret'.op = "add_user"
       /\ ret'.user = userid
       /\ ret'.fault = "insert"
       /\ calls' = calls + 1

\* C23: after any sequence of add_user, delete_user and
\* update_user_password calls at most one account exists per userid; and an
\* add_user with a userid that an account holds returns False and leaves the
\* table as it was, so that authenticate_user accepts, for that userid, the
\* password the account had and no other. The calls may overlap: a call
\* may be between two of its statements when another call runs, and an
\* add_user is judged by the accounts there are when it returns.
C23_OneAccountPerUserid ==
    /\ [](\A r1, r2 \in users : r1.userid = r2.userid => r1 = r2)
    /\ [][\A r \in users :
             AddUserReturns(r.userid)
                => /\ ret'.op = "add_user"
                   /\ ret'.value = FALSE
                   /\ users' = users
                   /\ \A p \in Passwords :
                         Authenticate(users', r.userid, p) <=> (p = r.password)]_vars

\* An add_user was refused for a userid whose account holds another password,
\* while a second account exists and an update_user_password of the userid
\* has read the account and not committed.
C23_Witness ==
    /\ ret.op = "add_user"
    /\ ret.fault = "none"
    /\ ret.value = FALSE
    /\ Cardinality(users) = 2
    /\ \E s \in Sessions :
         /\ sess[s].pc = "commit"
         /\ sess[s].op = "update_user_password"
         /\ sess[s].userid = ret.user
    /\ \E r \in users :
         /\ r.userid = ret.user
         /\ r.password # ret.query

====
